---- MODULE Spec2Model ----
(***************************************************************************)
(* A model of the circuit breaker of github.com/teresamychu/circuitbreaker *)
(* (breaker.go, config.go, state.go).  The guard `cb` is the CircuitBreaker *)
(* struct; callers are goroutines that call Execute and Reset.  Every      *)
(* caller's position in Execute is explicit, so that the extent of the     *)
(* critical section (cb.mu) is part of the model.                          *)
(***************************************************************************)
EXTENDS Integers, FiniteSets, Sequences, TLC

VARIABLES
    cb,         \* the CircuitBreaker struct: config, state, failures, successes, lastFailureTime, lastStateChange
    mu,         \* cb.mu: 0 when free, otherwise the caller that holds it exclusively
    pc,         \* pc[p]: where caller p is inside Execute / Reset
    result,     \* result[p]: the result the wrapped call of caller p returned (local of Execute)
    err,        \* err[p]: the error the wrapped call of caller p returned (local of Execute)
    invoked,    \* invoked[p]: how often the current Execute of p has invoked its wrapped call
    now,        \* the wall clock read by time.Now() / time.Since()
    last,       \* history: the most recent step that touched the guard or the clock
    openSince,  \* history: the time at which the guard last entered Open
    streak,     \* history: failing calls in a row since the guard was Closed with failures = 0
    failRun,    \* history: failing admitted calls since the last successful call or Reset
    probeRun,   \* history: successful calls in a row since the guard last entered HalfOpen
    resetFrom   \* history: the state the last Reset found, until the next admission check; -1 otherwise

vars == <<cb, mu, pc, result, err, invoked, now, last, openSince, streak, failRun, probeRun, resetFrom>>

----------------------------------------------------------------------------
(* Bounds of the model.                                                    *)

NumCallers == 2
MaxTime == 2
MaxCount == 3
MaxFailureThreshold == 2
MaxSuccessThreshold == 2
MaxTimeout == 2

Callers == 1..NumCallers

----------------------------------------------------------------------------
(* state.go: the State enumeration.                                        *)

Closed == 0
Open == 1
HalfOpen == 2

(* time.Time{}: the zero time, far in the past of every clock reading.     *)
ZeroTime == -1

(* The largest time.Duration; Time.Sub saturates to it.                    *)
MaxDuration == MaxTime + MaxTimeout + 2

(* time.Since(t) at clock reading n.                                       *)
Since(n, t) == IF t = ZeroTime THEN MaxDuration ELSE n - t

(* The errors Execute can return, and nil.                                 *)
Nil == "nil"
ErrCircuitOpen == "ErrCircuitOpen"
errSimulated == "errSimulated"

(* The wrapped calls of the tests: what request() returns.                 *)
successFn == [result |-> "ok", err |-> Nil]
failFn == [result |-> Nil, err |-> errSimulated]
Outcomes == {successFn, failFn}

(* Variant: Execute returns the call's error but drops its result.         *)
ExecuteReturnDropsResult(res, e) == [result |-> Nil, err |-> e]

(* breaker.go Execute line 69: return result, err.                         *)
ExecuteReturn(res, e) == [result |-> res, err |-> e]

(* breaker.go Execute line 64: return nil, ErrCircuitOpen.                 *)
Rejected == [result |-> Nil, err |-> ErrCircuitOpen]

(* config.go: the Config values a caller can pass to New, which accepts    *)
(* every one of them.                                                      *)
Configs ==
    [FailureThreshold : 0..MaxFailureThreshold,
     SuccessThreshold : 0..MaxSuccessThreshold,
     Timeout : 0..MaxTimeout]

(* config.go Validate: the body is a stub that reports no error.           *)
Validate(config) == Nil

(* breaker.go New: the struct literal sets config, every other field has   *)
(* its zero value.  New does not call Validate and returns no error.       *)
New(config) ==
    [config |-> config,
     state |-> Closed,
     failures |-> 0,
     successes |-> 0,
     lastFailureTime |-> ZeroTime,
     lastStateChange |-> ZeroTime]

----------------------------------------------------------------------------
(* breaker.go canExecuteRequest, at clock reading n: the verdict and the   *)
(* guard it leaves.                                                        *)

(* Variant: the Open gate reads lastFailureTime, not lastStateChange.      *)
canExecuteRequestByFailureTime(c, n) ==
    IF c.state = Open
    THEN IF Since(n, c.lastFailureTime) >= c.config.Timeout
         THEN [ok |-> TRUE, cb |-> [c EXCEPT !.state = HalfOpen]]
         ELSE [ok |-> FALSE, cb |-> c]
    ELSE [ok |-> c.state \in {Closed, HalfOpen}, cb |-> c]

(* Variant: the probe is admitted but the guard is left Open.              *)
canExecuteRequestStaysOpen(c, n) ==
    IF c.state = Open
    THEN [ok |-> Since(n, c.lastStateChange) >= c.config.Timeout, cb |-> c]
    ELSE [ok |-> c.state \in {Closed, HalfOpen}, cb |-> c]

(* Variant: a refusal restarts the cooldown.                               *)
canExecuteRequestRestartsCooldown(c, n) ==
    IF c.state = Open
    THEN IF Since(n, c.lastStateChange) >= c.config.Timeout
         THEN [ok |-> TRUE, cb |-> [c EXCEPT !.state = HalfOpen]]
         ELSE [ok |-> FALSE, cb |-> [c EXCEPT !.lastStateChange = n]]
    ELSE [ok |-> c.state \in {Closed, HalfOpen}, cb |-> c]

(* Variant: a guard that is already HalfOpen admits no further call.       *)
canExecuteRequestSingleProbe(c, n) ==
    IF c.state = Open
    THEN IF Since(n, c.lastStateChange) >= c.config.Timeout
         THEN [ok |-> TRUE, cb |-> [c EXCEPT !.state = HalfOpen]]
         ELSE [ok |-> FALSE, cb |-> c]
    ELSE [ok |-> c.state = Closed, cb |-> c]

(* Variant: the Closed branch is missing, so a Closed guard falls through  *)
(* to the final return false.                                              *)
canExecuteRequestNoClosedBranch(c, n) ==
    IF c.state = Open
    THEN IF Since(n, c.lastStateChange) >= c.config.Timeout
         THEN [ok |-> TRUE, cb |-> [c EXCEPT !.state = HalfOpen]]
         ELSE [ok |-> FALSE, cb |-> c]
    ELSE [ok |-> c.state = HalfOpen
                 /\ Since(n, c.lastFailureTime) >= c.config.Timeout,
          cb |-> c]

canExecuteRequest(c, n) ==
    IF c.state = Open
    THEN IF Since(n, c.lastStateChange) >= c.config.Timeout
         THEN [ok |-> TRUE, cb |-> [c EXCEPT !.state = HalfOpen]]
         ELSE [ok |-> FALSE, cb |-> c]
    ELSE IF c.state = HalfOpen /\ Since(n, c.lastFailureTime) >= c.config.Timeout
         THEN [ok |-> TRUE, cb |-> c]
         ELSE IF c.state = Closed
              THEN [ok |-> TRUE, cb |-> c]
              ELSE [ok |-> FALSE, cb |-> c]

(* breaker.go afterRequestUpdates, at clock reading n; e is the wrapped    *)
(* call's error.                                                           *)

(* Variant: the threshold test is > where the code has >=.                 *)
afterFailurePastThreshold(c, n) ==
    LET c1 == IF c.state = HalfOpen
              THEN [c EXCEPT !.state = Open, !.lastStateChange = n]
              ELSE c
        c2 == [c1 EXCEPT !.failures = @ + 1]
    IN  IF c2.failures > c2.config.FailureThreshold
        THEN [c2 EXCEPT !.state = Open, !.lastStateChange = n]
        ELSE c2

(* Variant: a failed probe is counted like a failure in Closed.            *)
afterFailureNoReopen(c, n) ==
    LET c2 == [c EXCEPT !.failures = @ + 1]
    IN  IF c2.failures >= c2.config.FailureThreshold
        THEN [c2 EXCEPT !.state = Open, !.lastStateChange = n]
        ELSE c2

afterFailure(c, n) ==
    LET c1 == IF c.state = HalfOpen
              THEN [c EXCEPT !.state = Open, !.lastStateChange = n]
              ELSE c
        c2 == [c1 EXCEPT !.failures = @ + 1]
    IN  IF c2.failures >= c2.config.FailureThreshold
        THEN [c2 EXCEPT !.state = Open, !.lastStateChange = n]
        ELSE c2

(* Variant: a success leaves the failure count alone.                      *)
afterSuccessKeepsFailures(c) ==
    LET c1 == [c EXCEPT !.successes = @ + 1]
    IN  IF c1.successes >= c1.config.SuccessThreshold /\ c1.state = HalfOpen
        THEN [c1 EXCEPT !.state = Closed]
        ELSE c1

(* Variant: the threshold test is > where the code has >=.                 *)
afterSuccessPastThreshold(c) ==
    LET c1 == [c EXCEPT !.failures = 0, !.successes = @ + 1]
    IN  IF c1.successes > c1.config.SuccessThreshold /\ c1.state = HalfOpen
        THEN [c1 EXCEPT !.state = Closed]
        ELSE c1

(* Variant: the success branch counts but never closes the guard.          *)
afterSuccessNeverCloses(c) ==
    [c EXCEPT !.failures = 0, !.successes = @ + 1]

afterSuccess(c) ==
    LET c1 == [c EXCEPT !.failures = 0, !.successes = @ + 1]
    IN  IF c1.successes >= c1.config.SuccessThreshold /\ c1.state = HalfOpen
        THEN [c1 EXCEPT !.state = Closed]
        ELSE c1

afterRequestUpdates(c, e, n) ==
    IF e # Nil THEN afterFailure(c, n) ELSE afterSuccess(c)

(* Variant: Reset clears the counters and timestamps but not the state.    *)
ResetFieldsKeepsState(c) ==
    [c EXCEPT !.failures = 0,
              !.lastFailureTime = ZeroTime,
              !.lastStateChange = ZeroTime,
              !.successes = 0]

(* breaker.go Reset, the writes made under the lock.                       *)
ResetFields(c) ==
    [c EXCEPT !.failures = 0,
              !.lastFailureTime = ZeroTime,
              !.lastStateChange = ZeroTime,
              !.successes = 0,
              !.state = Closed]

----------------------------------------------------------------------------
(* History bookkeeping shared by the actions.                              *)

(* A step that returns nothing to its caller.                              *)
NoReturn == [result |-> "none", err |-> "none"]

(* What the most recent step was: the operation, its caller, the state,    *)
(* failure count and pending Reset it found, its verdict (admitted, or the *)
(* wrapped call succeeded), the error (ret) and result it returned to the  *)
(* caller, what the wrapped call of the returning Execute had returned,    *)
(* and how often that Execute had invoked its wrapped call.                *)
Step(op, p, ok, r) ==
    [op |-> op, caller |-> p, from |-> cb.state, failures |-> cb.failures,
     resetFrom |-> resetFrom, ok |-> ok, ret |-> r.err, result |-> r.result,
     call |-> [result |-> result[p], err |-> err[p]],
     invoked |-> invoked[p]]

NoStep ==
    [op |-> "none", caller |-> 0, from |-> Closed, failures |-> 0,
     resetFrom |-> -1, ok |-> FALSE, ret |-> "none", result |-> "none",
     call |-> [result |-> Nil, err |-> Nil], invoked |-> 0]

(* The time the guard last entered Open, after a step from c to d at n.    *)
NextOpenSince(c, d, n) ==
    IF d.state = Open /\ c.state # Open THEN n ELSE openSince

(* Failing calls in a row counted from a guard that was Closed with no     *)
(* failures; -1 when the run did not start there or was interrupted.       *)
NextStreak(d, failed) ==
    IF d.state = Closed /\ d.failures = 0 THEN 0
    ELSE IF failed /\ streak >= 0 THEN streak + 1
    ELSE -1

----------------------------------------------------------------------------
Init ==
    /\ cb \in {New(config) : config \in Configs}
    /\ mu = 0
    /\ pc = [p \in Callers |-> "idle"]
    /\ result = [p \in Callers |-> Nil]
    /\ err = [p \in Callers |-> Nil]
    /\ invoked = [p \in Callers |-> 0]
    /\ now = 0
    /\ last = NoStep
    /\ openSince = ZeroTime
    /\ streak = 0
    /\ failRun = 0
    /\ probeRun = -1
    /\ resetFrom = -1

(* The clock advances.                                                     *)
Tick ==
    /\ now < MaxTime
    /\ now' = now + 1
    /\ last' = [NoStep EXCEPT !.op = "tick"]
    /\ UNCHANGED <<cb, mu, pc, result, err, invoked, openSince, streak, failRun, probeRun, resetFrom>>

(* Caller p calls Execute and reaches cb.mu.Lock().                        *)
Call(p) ==
    /\ pc[p] = "idle"
    /\ pc' = [pc EXCEPT ![p] = "lock"]
    /\ UNCHANGED <<cb, mu, result, err, invoked, now, last, openSince, streak, failRun, probeRun, resetFrom>>

(* Variant: Lock returns whether or not another caller holds the mutex.   *)
LockNoExclusion(p) ==
    /\ pc[p] = "lock"
    /\ mu' = p
    /\ pc' = [pc EXCEPT ![p] = "check"]
    /\ UNCHANGED <<cb, result, err, invoked, now, last, openSince, streak, failRun, probeRun, resetFrom>>

(* cb.mu.Lock() returns in Execute.                                        *)
Lock(p) ==
    /\ pc[p] = "lock"
    /\ mu = 0
    /\ mu' = p
    /\ pc' = [pc EXCEPT ![p] = "check"]
    /\ UNCHANGED <<cb, result, err, invoked, now, last, openSince, streak, failRun, probeRun, resetFrom>>

(* Execute lines 62-65: the admission check; a refused call returns        *)
(* (nil, ErrCircuitOpen) and the deferred Unlock runs.                     *)
Check(p) ==
    /\ pc[p] = "check"
    /\ LET r == canExecuteRequest(cb, now)
       IN  /\ cb' = r.cb
           /\ IF r.ok
              THEN /\ pc' = [pc EXCEPT ![p] = "request"]
                   /\ mu' = mu
                   /\ last' = Step("check", p, TRUE, NoReturn)
              ELSE /\ pc' = [pc EXCEPT ![p] = "idle"]
                   /\ mu' = 0
                   /\ last' = Step("check", p, FALSE, Rejected)
           /\ openSince' = NextOpenSince(cb, r.cb, now)
           /\ streak' = IF r.ok /\ r.cb = cb THEN streak ELSE -1
           /\ probeRun' = IF cb.state = Open /\ r.cb.state = HalfOpen THEN 0 ELSE probeRun
    /\ resetFrom' = -1
    /\ UNCHANGED <<result, err, invoked, now, failRun>>

(* Execute line 66: the wrapped call, one of calls, runs and returns.      *)
RunRequest(p, calls) ==
    /\ pc[p] = "request"
    /\ \E o \in calls :
         /\ o.err = Nil => cb.successes < MaxCount
         /\ o.err # Nil => cb.failures < MaxCount
         /\ result' = [result EXCEPT ![p] = o.result]
         /\ err' = [err EXCEPT ![p] = o.err]
    /\ invoked' = [invoked EXCEPT ![p] = @ + 1]
    /\ pc' = [pc EXCEPT ![p] = "after"]
    /\ UNCHANGED <<cb, mu, now, last, openSince, streak, failRun, probeRun, resetFrom>>

Request(p) == RunRequest(p, Outcomes)

(* Execute lines 68-69: the bookkeeping, the return of the call's own      *)
(* result and the deferred Unlock.                                         *)
After(p) ==
    /\ pc[p] = "after"
    /\ LET d == afterRequestUpdates(cb, err[p], now)
           failed == err[p] # Nil
       IN  /\ cb' = d
           /\ last' = Step("after", p, ~failed, ExecuteReturn(result[p], err[p]))
           /\ openSince' = NextOpenSince(cb, d, now)
           /\ streak' = NextStreak(d, failed)
           /\ failRun' = IF failed THEN failRun + 1 ELSE 0
           /\ probeRun' = IF failed THEN -1
                          ELSE IF probeRun >= 0 THEN probeRun + 1 ELSE -1
    /\ mu' = 0
    /\ pc' = [pc EXCEPT ![p] = "idle"]
    /\ result' = [result EXCEPT ![p] = Nil]
    /\ err' = [err EXCEPT ![p] = Nil]
    /\ invoked' = [invoked EXCEPT ![p] = 0]
    /\ UNCHANGED <<now, resetFrom>>

(* Caller p calls Reset and reaches cb.mu.Lock().                          *)
ResetCall(p) ==
    /\ pc[p] = "idle"
    /\ pc' = [pc EXCEPT ![p] = "rlock"]
    /\ UNCHANGED <<cb, mu, result, err, invoked, now, last, openSince, streak, failRun, probeRun, resetFrom>>

(* Variant: Reset writes the fields without waiting for the mutex.         *)
ResetNoLock(p) ==
    /\ pc[p] = "rlock"
    /\ cb' = ResetFields(cb)
    /\ pc' = [pc EXCEPT ![p] = "idle"]
    /\ last' = Step("reset", p, TRUE, NoReturn)
    /\ openSince' = ZeroTime
    /\ streak' = 0
    /\ failRun' = 0
    /\ probeRun' = -1
    /\ resetFrom' = cb.state
    /\ UNCHANGED <<mu, result, err, invoked, now>>

(* Reset: Lock returns, the fields are written, the deferred Unlock runs.  *)
Reset(p) ==
    /\ pc[p] = "rlock"
    /\ mu = 0
    /\ cb' = ResetFields(cb)
    /\ pc' = [pc EXCEPT ![p] = "idle"]
    /\ last' = Step("reset", p, TRUE, NoReturn)
    /\ openSince' = ZeroTime
    /\ streak' = 0
    /\ failRun' = 0
    /\ probeRun' = -1
    /\ resetFrom' = cb.state
    /\ UNCHANGED <<mu, result, err, invoked, now>>

(* breaker.go State: return cb.state, with no lock taken.  The read is     *)
(* not ordered with the writes made under cb.mu, so it yields the current  *)
(* value or a value the field held before: Closed (the value New left),    *)
(* and Open and HalfOpen once the guard has passed through them.           *)
StateReads(c) ==
    {c.state, Closed}
        \cup (IF c.state = HalfOpen \/ c.lastStateChange # ZeroTime
              THEN {Open} ELSE {})
        \cup (IF c.state = Closed /\ c.lastStateChange # ZeroTime
              THEN {HalfOpen} ELSE {})

State(p) ==
    /\ pc[p] = "idle"
    /\ \E v \in StateReads(cb) :
          last' = [NoStep EXCEPT !.op = "state", !.from = v]
    /\ UNCHANGED <<cb, mu, pc, result, err, invoked, now, openSince, streak, failRun, probeRun, resetFrom>>

Next ==
    \/ Tick
    \/ \E p \in Callers : Call(p)
    \/ \E p \in Callers : Lock(p)
    \/ \E p \in Callers : Check(p)
    \/ \E p \in Callers : Request(p)
    \/ \E p \in Callers : After(p)
    \/ \E p \in Callers : ResetCall(p)
    \/ \E p \in Callers : Reset(p)

Spec == Init /\ [][Next]_vars

----------------------------------------------------------------------------
(* TestConcurrency: goroutines that call Execute(successFn) on a new       *)
(* guard, any number of times, and nothing else.                           *)

RequestSuccess(p) == RunRequest(p, {successFn})

NextAllSucceed ==
    \/ Tick
    \/ \E p \in Callers : Call(p)
    \/ \E p \in Callers : Lock(p)
    \/ \E p \in Callers : Check(p)
    \/ \E p \in Callers : RequestSuccess(p)
    \/ \E p \in Callers : After(p)

SpecAllSucceed == Init /\ [][NextAllSucceed]_vars

----------------------------------------------------------------------------
(* TestConcurrency_WithFailures: goroutines that call Execute(failFn) on   *)
(* a new guard, any number of times, and nothing else.                     *)

RequestFailure(p) == RunRequest(p, {failFn})

NextAllFail ==
    \/ Tick
    \/ \E p \in Callers : Call(p)
    \/ \E p \in Callers : Lock(p)
    \/ \E p \in Callers : Check(p)
    \/ \E p \in Callers : RequestFailure(p)
    \/ \E p \in Callers : After(p)

SpecAllFail == Init /\ [][NextAllFail]_vars

----------------------------------------------------------------------------
(* Recovery: the dependency is down until the guard has opened once, and   *)
(* healthy from then on; nobody calls Reset.  The clock advances, and as   *)
(* long as some goroutine can call Execute or take its next step in it,    *)
(* one of them eventually does: callers keep calling Execute and their     *)
(* wrapped calls return.                                                   *)

RequestWhileDown(p) == openSince = ZeroTime /\ RunRequest(p, {failFn})

NextRecover ==
    \/ Tick
    \/ \E p \in Callers : Call(p)
    \/ \E p \in Callers : Lock(p)
    \/ \E p \in Callers : Check(p)
    \/ \E p \in Callers : RequestWhileDown(p)
    \/ \E p \in Callers : RequestSuccess(p)
    \/ \E p \in Callers : After(p)

(* Some caller enters Execute or takes its next step in it, with a         *)
(* wrapped call that succeeds.                                             *)
ExecuteStep ==
    \E p \in Callers :
        Call(p) \/ Lock(p) \/ Check(p) \/ RequestSuccess(p) \/ After(p)

SpecRecover ==
    /\ Init
    /\ [][NextRecover]_vars
    /\ WF_vars(Tick)
    /\ WF_vars(ExecuteStep)

----------------------------------------------------------------------------
TypeOK ==
    /\ cb.state \in {Closed, Open, HalfOpen}
    /\ cb.failures \in 0..MaxCount
    /\ cb.successes \in 0..MaxCount
    /\ mu \in 0..NumCallers
    /\ now \in 0..MaxTime

----------------------------------------------------------------------------
(* Shorthands for the properties.                                          *)

FailureThreshold == cb.config.FailureThreshold
SuccessThreshold == cb.config.SuccessThreshold
Timeout == cb.config.Timeout

(* The configuration the data model asks for: both thresholds positive.    *)
ValidConfig == FailureThreshold >= 1 /\ SuccessThreshold >= 1

(* The step just taken was the admission check of an Execute that found    *)
(* the guard in state s.                                                   *)
Checked(s) == last.op = "check" /\ last.from = s

(* The step just taken was the return of an admitted Execute that found    *)
(* the guard in state s when its wrapped call had returned.                *)
Returned(s) == last.op = "after" /\ last.from = s

----------------------------------------------------------------------------
(* C1: from a guard that is Closed with consecutiveFailures = 0 and        *)
(* failureThreshold >= 1, fewer than failureThreshold failing Execute      *)
(* calls in a row leave the state Closed, and right after the              *)
(* failureThreshold-th one the state is Open.                              *)
C1_TripsAtThreshold ==
    (FailureThreshold >= 1 /\ streak >= 0) =>
        /\ streak <= FailureThreshold
        /\ streak < FailureThreshold => cb.state = Closed
        /\ streak = FailureThreshold => cb.state = Open

C1_Witness ==
    /\ FailureThreshold = 2
    /\ Returned(Closed)
    /\ ~last.ok
    /\ streak = 2
    /\ cb.state = Open

(* C2: an Execute that finds the guard Open less than timeout after the    *)
(* guard entered Open (by a trip or by a failed probe) returns             *)
(* ErrCircuitOpen, does not invoke the wrapped call and leaves the guard   *)
(* Open.                                                                   *)
C2_RejectsDuringCooldown ==
    (Checked(Open) /\ now - openSince < Timeout) =>
        /\ ~last.ok
        /\ last.ret = ErrCircuitOpen
        /\ last.invoked = 0
        /\ pc[last.caller] \notin {"request", "after"}
        /\ cb.state = Open

(* A rejection during the cooldown that a failed probe started.            *)
C2_Witness ==
    /\ Checked(Open)
    /\ now - openSince < Timeout
    /\ last.ret = ErrCircuitOpen
    /\ FailureThreshold >= 1
    /\ cb.failures > FailureThreshold

(* C3: an Execute that finds the guard Open at least timeout after the     *)
(* last state change is admitted, and the state is HalfOpen while its      *)
(* wrapped call runs, before the outcome is processed.                     *)
C3_ProbeAdmittedAfterCooldown ==
    (Checked(Open) /\ now - openSince >= Timeout) =>
        /\ last.ok
        /\ last.ret # ErrCircuitOpen
        /\ pc[last.caller] \in {"request", "after"}
        /\ cb.state = HalfOpen

C3_Witness ==
    /\ Checked(Open)
    /\ Timeout >= 1
    /\ now - openSince >= Timeout
    /\ pc[last.caller] = "request"
    /\ cb.state = HalfOpen

(* C4: an Execute moves the guard from HalfOpen to Closed only when at     *)
(* least successThreshold successful calls have completed since the guard  *)
(* last entered HalfOpen (stated for guards with positive thresholds).     *)
C4_CloseNeedsProbeSuccesses ==
    (ValidConfig /\ Returned(HalfOpen) /\ cb.state = Closed) =>
        probeRun >= SuccessThreshold

(* C5: an admitted Execute whose wrapped call fails while the guard is     *)
(* HalfOpen leaves the guard Open whatever the counters are, and the       *)
(* cooldown gate then runs from the time of that failure.                  *)
C5_ProbeFailureReopens ==
    (Returned(HalfOpen) /\ ~last.ok) =>
        /\ cb.state = Open
        /\ cb.lastStateChange = now
        /\ \A t \in now..(MaxTime + MaxTimeout) :
               canExecuteRequest(cb, t).ok <=> (t - now >= Timeout)

(* A failed probe that leaves the failure count below the threshold.       *)
C5_Witness ==
    /\ Returned(HalfOpen)
    /\ ~last.ok
    /\ cb.failures < FailureThreshold
    /\ cb.state = Open

(* C6: in Closed a successful Execute sets consecutiveFailures to 0 and    *)
(* leaves the guard Closed, and the guard trips from Closed to Open only   *)
(* when at least failureThreshold failing calls have occurred since the    *)
(* last successful call.                                                   *)
C6_SuccessResetsFailures ==
    /\ (Returned(Closed) /\ last.ok) => (cb.failures = 0 /\ cb.state = Closed)
    /\ (Returned(Closed) /\ cb.state = Open) => failRun >= FailureThreshold
    /\ cb.state = Closed => cb.failures = failRun

(* A success in Closed that wipes out recorded failures.                   *)
C6_Witness ==
    /\ Returned(Closed)
    /\ last.ok
    /\ last.failures >= 1
    /\ cb.failures = 0
    /\ cb.state = Closed

(* C7: once the guard has entered HalfOpen, the successThreshold-th        *)
(* successful Execute in a row (no failure, no Reset between) and every    *)
(* later one of that row leaves the guard Closed.                          *)
C7_ProbeSuccessesClose ==
    (last.op = "after" /\ last.ok /\ probeRun >= SuccessThreshold) =>
        cb.state = Closed

(* The second of two successful probes closes a guard that needs two.      *)
C7_Witness ==
    /\ SuccessThreshold = 2
    /\ Returned(HalfOpen)
    /\ last.ok
    /\ probeRun = 2
    /\ cb.successes = 2
    /\ cb.state = Closed

(* C8: right after every transition from HalfOpen to Closed both           *)
(* consecutiveFailures and consecutiveSuccesses are 0 (stated for guards   *)
(* with positive thresholds).                                              *)
C8_CountersZeroOnClose ==
    (/\ ValidConfig
     /\ last.op \in {"after", "reset"}
     /\ last.from = HalfOpen
     /\ cb.state = Closed) =>
        (cb.failures = 0 /\ cb.successes = 0)

(* C9: right after a failing call moves the guard from HalfOpen to Open,   *)
(* consecutiveSuccesses is 0 (stated for guards with positive thresholds). *)
C9_ProbeFailureDiscardsSuccesses ==
    (ValidConfig /\ Returned(HalfOpen) /\ ~last.ok /\ cb.state = Open) =>
        cb.successes = 0

(* C10: Reset, from whatever state, leaves the guard Closed with both      *)
(* counters 0 and both timestamps cleared, and the next Execute after it   *)
(* is admitted.                                                            *)
C10_ResetRestoresFreshGuard ==
    /\ last.op = "reset" =>
          /\ cb.state = Closed
          /\ cb.failures = 0
          /\ cb.successes = 0
          /\ cb.lastFailureTime = ZeroTime
          /\ cb.lastStateChange = ZeroTime
          /\ resetFrom = last.from
    /\ (last.op = "check" /\ last.resetFrom # -1) =>
          /\ last.ok
          /\ pc[last.caller] \in {"request", "after"}

(* A Reset of an Open guard, inside the cooldown, followed by an admitted  *)
(* Execute.                                                                *)
C10_Witness ==
    /\ last.op = "check"
    /\ last.resetFrom = Open
    /\ Timeout >= 1
    /\ now = 0
    /\ cb.state = Closed
    /\ pc[last.caller] = "request"

(* C11: every admitted Execute invokes its wrapped call exactly once and   *)
(* returns exactly the result and error that call returned, whatever the   *)
(* state and the outcome.                                                  *)
C11_ReturnsTheCallsOwnResult ==
    /\ last.op = "after" =>
          /\ last.invoked = 1
          /\ last.result = last.call.result
          /\ last.ret = last.call.err
          /\ last.call \in Outcomes
    /\ \A p \in Callers :
          /\ pc[p] = "after" => invoked[p] = 1
          /\ pc[p] \in {"check", "request"} => invoked[p] = 0

(* A successful probe handed back to its caller.                           *)
C11_Witness ==
    /\ Returned(HalfOpen)
    /\ last.call = successFn
    /\ last.result = "ok"
    /\ last.ret = Nil
    /\ last.invoked = 1

(* C12: Execute returns ErrCircuitOpen only when its admission check finds *)
(* the guard Open; a check that finds the guard Closed or HalfOpen admits  *)
(* the call.                                                               *)
C12_OnlyOpenRejects ==
    /\ (last.op = "check" /\ (~last.ok \/ last.ret = ErrCircuitOpen)) =>
          last.from = Open
    /\ (Checked(Closed) \/ Checked(HalfOpen)) =>
          /\ last.ok
          /\ last.ret # ErrCircuitOpen
          /\ pc[last.caller] \in {"request", "after"}
    /\ last.op = "after" => last.ret # ErrCircuitOpen

(* A second probe admitted by a guard that is already HalfOpen.            *)
C12_Witness ==
    /\ Checked(HalfOpen)
    /\ last.ok
    /\ Timeout >= 1
    /\ cb.successes >= 1
    /\ pc[last.caller] = "request"

(* C13: New fails for a configuration with a non-positive threshold, so a  *)
(* guard only ever exists with failureThreshold >= 1 and                   *)
(* successThreshold >= 1.                                                  *)
C13_NewRejectsInvalidThresholds ==
    /\ cb.config.FailureThreshold >= 1
    /\ cb.config.SuccessThreshold >= 1

(* C14: the exclusive lock is not held while the wrapped call runs, so a   *)
(* caller that reaches the lock of Execute or Reset while another          *)
(* caller's wrapped call is in flight is not kept waiting by that call     *)
(* (stated for guards with positive thresholds).                           *)
C14_WrappedCallRunsUnlocked ==
    ValidConfig =>
        \A p, q \in Callers :
            (pc[p] = "request" /\ pc[q] \in {"lock", "rlock"}) => mu # p

(* C15: when every caller only issues Execute calls whose wrapped call     *)
(* succeeds, against a new guard and under any interleaving, no call is    *)
(* rejected, every call returns its wrapped call's result with a nil       *)
(* error, and the guard is Closed throughout.                              *)
C15_AllSucceedStaysClosed ==
    /\ cb.state = Closed
    /\ cb.failures = 0
    /\ last.op = "check" => (last.ok /\ last.ret # ErrCircuitOpen)
    /\ last.op = "after" => (last.ret = Nil /\ last.result = successFn.result)

(* Two successful calls done, a third in flight and another caller         *)
(* waiting for the lock.                                                   *)
C15_Witness ==
    /\ cb.successes >= 2
    /\ cb.state = Closed
    /\ \E p, q \in Callers : pc[p] = "request" /\ pc[q] = "lock"

(* C16: when every caller only issues Execute calls whose wrapped call     *)
(* fails, against a new guard and under any interleaving of calls and      *)
(* clock, then once at least failureThreshold (and at least one) of them   *)
(* have run and no call is in flight the guard is Open; no call is         *)
(* rejected before that, and each call returns its own error or            *)
(* ErrCircuitOpen.                                                         *)
C16_AllFailEndsOpen ==
    /\ (mu = 0 /\ failRun >= FailureThreshold /\ failRun >= 1) => cb.state = Open
    /\ (last.op = "check" /\ ~last.ok) =>
          (last.ret = ErrCircuitOpen /\ failRun >= FailureThreshold /\ failRun >= 1)
    /\ last.op = "after" => (last.ret = failFn.err /\ last.result = failFn.result)

(* The guard tripped, the cooldown elapsed and the probe failed too.       *)
C16_Witness ==
    /\ FailureThreshold = 2
    /\ Timeout = 1
    /\ failRun = 3
    /\ mu = 0
    /\ cb.state = Open
    /\ \A p \in Callers : pc[p] = "idle"

(* C17: from Open, when the clock can still pass the cooldown and callers  *)
(* keep calling Execute with wrapped calls that succeed, the guard         *)
(* eventually is Closed, without any Reset (the clock and the success      *)
(* counter of the model being below their bounds).                         *)
C17_RecoversAutomatically ==
    (/\ cb.state = Open
     /\ openSince + Timeout <= MaxTime
     /\ cb.successes < MaxCount) ~> (cb.state = Closed)

(* A guard that tripped, waited out a real cooldown and was closed again   *)
(* by a successful probe.                                                  *)
C17_Witness ==
    /\ Timeout >= 1
    /\ FailureThreshold >= 1
    /\ SuccessThreshold = 2
    /\ openSince # ZeroTime
    /\ Returned(HalfOpen)
    /\ last.ok
    /\ probeRun = 2
    /\ cb.state = Closed

(* The guard with observers: any idle caller may also call State, at any   *)
(* moment, whoever holds cb.mu.  State changes no field of the guard, so   *)
(* the guard passes through the same states as under Spec.                 *)
NextObserved ==
    \/ Next
    \/ \E p \in Callers : State(p)

SpecObserved == Init /\ [][NextObserved]_vars

InExecute(p) == pc[p] \in {"check", "request", "after"}

(* C19: the admission decision and the state update it causes are atomic   *)
(* with respect to other callers.  When several callers are in Execute at  *)
(* once and the cooldown has elapsed, the step from Open to HalfOpen is    *)
(* taken by the one caller that holds the lock and is at its admission     *)
(* check, while no other caller is between Lock and Unlock; that caller's  *)
(* check always takes the step, and no other caller is at its own check    *)
(* observing Open at the same time.                                        *)
C19_OneCallerStartsProbing ==
    [][ /\ \A p \in Callers :
             (/\ pc[p] = "check"
              /\ pc'[p] # "check"
              /\ cb.state = Open
              /\ Since(now, cb.lastStateChange) >= Timeout)
             => cb'.state = HalfOpen
        /\ (cb.state = Open /\ cb'.state = HalfOpen)
             => \E p \in Callers :
                  /\ mu = p
                  /\ pc[p] = "check"
                  /\ pc'[p] = "request"
                  /\ \A q \in Callers \ {p} : ~InExecute(q) /\ ~InExecute(q)'
      ]_vars

(* A caller has just moved a tripped guard to HalfOpen after a real        *)
(* cooldown while another caller of Execute was waiting in Lock.           *)
C19_Witness ==
    /\ ValidConfig
    /\ Timeout >= 1
    /\ Checked(Open)
    /\ last.ok
    /\ cb.state = HalfOpen
    /\ \E q \in Callers \ {last.caller} : pc[q] = "lock"

(* The step is caller p's Reset.                                           *)
ResetStep(p) == pc[p] = "rlock" /\ pc'[p] = "idle"

(* C20: Reset is safe to call concurrently with Execute.  Reset writes     *)
(* only while it holds the lock, that is while no Execute is between its   *)
(* Lock and its Unlock, and every change to the guard's fields is made     *)
(* either by such a Reset or by the one Execute that holds the lock, so    *)
(* the guard's fields always are what the calls produce when run one after *)
(* another in the order they took the lock.                                *)
C20_ResetSerialisesWithExecute ==
    [][ /\ \A p \in Callers :
             ResetStep(p) => (mu = 0 /\ \A q \in Callers : ~InExecute(q))
        /\ cb' # cb =>
             IF mu # 0
             THEN /\ InExecute(mu)
                  /\ pc'[mu] # pc[mu]
                  /\ \A q \in Callers \ {mu} : pc'[q] = pc[q] /\ ~InExecute(q)
             ELSE \E p \in Callers : ResetStep(p)
      ]_vars

(* A Reset has just cleared a guard that was not Closed while another      *)
(* caller's Execute was waiting for the lock.                              *)
C20_Witness ==
    /\ ValidConfig
    /\ last.op = "reset"
    /\ last.from # Closed
    /\ cb.state = Closed
    /\ \E q \in Callers \ {last.caller} : pc[q] = "lock"

(* The step is the return of caller p's Execute with a refusal.            *)
RejectStep(p) == pc[p] = "check" /\ pc'[p] = "idle"

(* C21: an Execute that is rejected with ErrCircuitOpen changes nothing:   *)
(* from its call to its return, none of its own steps (reaching Lock,      *)
(* taking the lock, the refusing admission check) changes state, failures, *)
(* successes, lastFailureTime or lastStateChange, so a rejection neither   *)
(* extends nor restarts the cooldown.                                      *)
C21_RejectionChangesNothing ==
    [][ \A p \in Callers :
          \/ pc[p] = "idle" /\ pc'[p] = "lock"
          \/ pc[p] = "lock" /\ pc'[p] = "check"
          \/ RejectStep(p)
          => /\ cb'.state = cb.state
             /\ cb'.failures = cb.failures
             /\ cb'.successes = cb.successes
             /\ cb'.lastFailureTime = cb.lastFailureTime
             /\ cb'.lastStateChange = cb.lastStateChange
      ]_vars

(* A call has just been refused by a guard in a real cooldown that began   *)
(* before the present clock reading.                                       *)
C21_Witness ==
    /\ ValidConfig
    /\ Timeout >= 1
    /\ Checked(Open)
    /\ ~last.ok
    /\ last.ret = ErrCircuitOpen
    /\ cb.state = Open
    /\ cb.lastStateChange # ZeroTime
    /\ cb.lastStateChange < now

(* C22: for a guard with failureThreshold >= 1, in every reachable state   *)
(* (the bookkeeping of an Execute is one step here, so no state lies in    *)
(* the middle of it) state = Closed implies failures < failureThreshold.   *)
C22_ClosedBelowThreshold ==
    (FailureThreshold >= 1 /\ cb.state = Closed)
        => cb.failures < FailureThreshold

(* A Closed guard one failure short of its threshold, just after a failed  *)
(* call was counted.                                                       *)
C22_Witness ==
    /\ ValidConfig
    /\ FailureThreshold >= 2
    /\ Returned(Closed)
    /\ ~last.ok
    /\ cb.state = Closed
    /\ cb.failures = FailureThreshold - 1

(* C23: when an admitted call fails while the guard is HalfOpen, the guard *)
(* records the time of that failure as its last-failure time, in addition  *)
(* to the state-change time (stated for guards with positive thresholds).  *)
C23_ProbeFailureRecordsFailureTime ==
    (ValidConfig /\ Returned(HalfOpen) /\ ~last.ok)
        => /\ cb.lastStateChange = now
           /\ cb.lastFailureTime = now

(* The number of failed admitted calls since the most recent successful    *)
(* call or the most recent entry into the current state, whichever is      *)
(* later.  The guard enters Open on a failure and admits no call while     *)
(* Open, and it leaves HalfOpen on the first failure, so the count is 0 in *)
(* both; Closed is entered on a success or a Reset, so there the count is  *)
(* the run of failures since the last success or Reset.                    *)
FailedSinceSuccessOrEntry == IF cb.state = Closed THEN failRun ELSE 0

(* C24: consecutiveFailures always equals the number of failed admitted    *)
(* calls since the most recent successful call or the most recent entry    *)
(* into the current state, whichever is later; it restarts from 0 when the *)
(* guard enters Open or HalfOpen and never exceeds failureThreshold        *)
(* (stated for guards with positive thresholds).                           *)
C24_FailuresCountSinceSuccessOrEntry ==
    ValidConfig =>
        /\ cb.failures = FailedSinceSuccessOrEntry
        /\ cb.failures <= FailureThreshold

====
